---------------------------- MODULE Spec2Model ----------------------------
(***************************************************************************)
(* A model of scripts/build.js: the build script that turns index.html     *)
(* into its AMP variant (amp/index.html), and of the browser-side preload  *)
(* shim that follows it in the same file.  The shim reads the browser's    *)
(* global document; it is modelled as a program of its own, run by a      *)
(* browser on a live document, and not as a part of the node process.     *)
(*                                                                         *)
(* The DOM is a heap of nodes: a node is identified by its index in        *)
(* `heap', it names its children and its parent by index, so that cloning, *)
(* moving and removing nodes are what they are in the DOM and a change to  *)
(* the parsed source tree is observable.  Texts (textContent, CSS, the     *)
(* serialized markup) are sequences of chunks, each chunk a literal piece  *)
(* of the text, so that the two regular expressions of the script are      *)
(* computed on the text and not assumed.                                   *)
(***************************************************************************)
EXTENDS Integers, Sequences, FiniteSets, TLC

VARIABLES
  pc,          \* position of the running program
  input,       \* the content of index.html (a tree of elements), once read
  heap,        \* the DOM: a sequence of nodes, a node's id is its index
  srcHeap,     \* the DOM as the parser (or the browser) delivered it
  html,        \* generateHtml: id of the new root element (0: none yet)
  head,        \* generateHead: id of the new head element (0: none yet)
  body,        \* generateBody: id of the new body element (0: none yet)
  text,        \* generate: "<!DOCTYPE html>\n" + html.outerHTML
  minified,    \* main: what minify returned
  output,      \* main: the minified text after the .replace fix-up
  file,        \* what this run has written to amp/index.html
  failedAt,    \* the step whose promise rejected ("" when none did)
  reported,    \* whether console.error was called with the error
  exitStatus,  \* the exit status of the process (-1 while it runs)
  cssIn,       \* generateStyle: result.css
  cssOut,      \* generateStyle: style.textContent
  preloads,    \* shim: the NodeList querySelectorAll returned
  idx          \* shim: how many entries forEach has visited

vars == <<pc, input, heap, srcHeap, html, head, body, text, minified, output,
          file, failedAt, reported, exitStatus, cssIn, cssOut, preloads, idx>>

--------------------------------------------------------------------------
(* Bounds of the model *)

\* elements and root attributes an input document holds besides its html,
\* head, title and body
MaxElems == 3

\* chunks of a CSS text the transform pipeline returns
MaxCss == 4

\* elements of the live document the shim runs on
MaxLive == 3

--------------------------------------------------------------------------
(* Sequences *)

RECURSIVE SeqsUpTo(_, _)
SeqsUpTo(S, n) ==
  IF n = 0 THEN {<<>>}
  ELSE LET shorter == SeqsUpTo(S, n - 1)
       IN shorter \cup {Append(s, x) : s \in {t \in shorter : Len(t) = n - 1}, x \in S}

IndexOf(s, x) == IF \E i \in DOMAIN s : s[i] = x
                 THEN CHOOSE i \in DOMAIN s : s[i] = x /\ \A j \in 1..(i - 1) : s[j] # x
                 ELSE 0

--------------------------------------------------------------------------
(* DOM: elements, attributes *)

Attr(name, value) == [name |-> name, value |-> value]

Elem(tag, attrs, txt, kids) == [tag |-> tag, attrs |-> attrs, text |-> txt, kids |-> kids]

HasAttr(n, name) == \E i \in DOMAIN n.attrs : n.attrs[i].name = name

GetAttr(n, name) ==
  IF HasAttr(n, name)
  THEN n.attrs[CHOOSE i \in DOMAIN n.attrs : n.attrs[i].name = name].value
  ELSE ""

SetAttrs(attrs, name, value) ==
  IF \E i \in DOMAIN attrs : attrs[i].name = name
  THEN [i \in DOMAIN attrs |-> IF attrs[i].name = name THEN Attr(name, value) ELSE attrs[i]]
  ELSE Append(attrs, Attr(name, value))

Node(tag, attrs, txt, parent, from) ==
  [tag |-> tag, attrs |-> attrs, text |-> txt, kids |-> <<>>, parent |-> parent, from |-> from]

\* document.createElement(tag): a new node, attached to nothing; its id
\* is Len(h) + 1.
CreateElement(h, tag) == Append(h, Node(tag, <<>>, <<>>, 0, "new"))

SetAttribute(h, n, name, value) == [h EXCEPT ![n].attrs = SetAttrs(@, name, value)]

SetTextContent(h, n, txt) == [h EXCEPT ![n].text = txt]

\* node.remove(): detach from the parent, if any.
Remove(h, c) ==
  LET p == h[c].parent
  IN IF p = 0 THEN h
     ELSE [h EXCEPT ![p].kids = SelectSeq(@, LAMBDA k : k # c), ![c].parent = 0]

\* parent.appendChild(c): c leaves its former parent (a node has one
\* parent) and becomes the last child of p.
AppendChild(h, p, c) ==
  LET h1 == Remove(h, c)
  IN [h1 EXCEPT ![p].kids = Append(@, c), ![c].parent = p]

RECURSIVE Alloc(_, _, _), AllocKids(_, _, _)
\* The parser's tree for an element of the input: the element at
\* Len(h) + 1, its descendants after it.
Alloc(h, e, p) ==
  LET id == Len(h) + 1
      h1 == Append(h, Node(e.tag, e.attrs, e.text, p, "source"))
      h2 == IF p = 0 THEN h1 ELSE [h1 EXCEPT ![p].kids = Append(@, id)]
  IN AllocKids(h2, e.kids, id)
AllocKids(h, ks, p) ==
  IF ks = <<>> THEN h ELSE AllocKids(Alloc(h, Head(ks), p), Tail(ks), p)

RECURSIVE CloneInto(_, _, _, _), CloneKids(_, _, _)
\* node.cloneNode(deep): a copy of n at Len(h) + 1, attached to p (0:
\* to nothing), with copies of n's descendants when deep.
CloneInto(h, n, p, deep) ==
  LET id == Len(h) + 1
      h1 == Append(h, Node(h[n].tag, h[n].attrs, h[n].text, p, "clone"))
      h2 == IF p = 0 THEN h1 ELSE [h1 EXCEPT ![p].kids = Append(@, id)]
  IN IF deep THEN CloneKids(h2, h[n].kids, id) ELSE h2
CloneKids(h, ks, p) ==
  IF ks = <<>> THEN h ELSE CloneKids(CloneInto(h, Head(ks), p, TRUE), Tail(ks), p)

CloneNode(h, n, deep) == CloneInto(h, n, 0, deep)

RECURSIVE Subtree(_, _), SubtreeKids(_, _)
\* n and its descendants, in document order.
Subtree(h, n) == <<n>> \o SubtreeKids(h, h[n].kids)
SubtreeKids(h, ks) ==
  IF ks = <<>> THEN <<>> ELSE Subtree(h, Head(ks)) \o SubtreeKids(h, Tail(ks))

Descendants(h, n) == Tail(Subtree(h, n))

--------------------------------------------------------------------------
(* The input: index.html *)

LdJson == "application/ld+json"

\* JSON texts of structured-data blocks: with insignificant white space,
\* with a duplicate key, and one that is not JSON.
JsonSpaced == "{ \"name\" : \"Hi\" }"
JsonDup == "{\"name\":\"Hi\",\"name\":\"Ho\"}"
JsonBad == "{name: Hi}"

UrlRaw == "https://a.example"
UrlSlash == "https://b.example/"

TitleElem == Elem("title", <<>>, <<"Hi">>, <<>>)
ScriptElem == Elem("script", <<>>, <<"alert(1)">>, <<>>)
JsonElem(t) == Elem("script", <<Attr("type", LdJson)>>, <<t>>, <<>>)
CanonicalElem(u) == Elem("link", <<Attr("rel", "canonical"), Attr("href", u)>>, <<>>, <<>>)
CanonicalNoHref == Elem("link", <<Attr("rel", "canonical")>>, <<>>, <<>>)
AnalyticsElem == Elem("amp-analytics", <<Attr("type", "googleanalytics")>>, <<>>, <<>>)
DivElem(kids) == Elem("div", <<>>, <<"x">>, kids)

HeadChoices == {CanonicalNoHref, CanonicalElem(UrlRaw), JsonElem(JsonDup), JsonElem(JsonBad)}

BodyLeaves == {ScriptElem, JsonElem(JsonSpaced), CanonicalElem(UrlSlash), AnalyticsElem}

RootAttrChoices == {Attr("lang", "ja"), Attr("data-amp", "")}

SeqsOfLen(S, n) == {s \in SeqsUpTo(S, n) : Len(s) = n}

\* sequences of n attributes with distinct names
AttrSeqs(n) ==
  {s \in SeqsOfLen(RootAttrChoices, n) :
     \A i, j \in DOMAIN s : i # j => s[i].name # s[j].name}

RECURSIVE Trees(_), Forests(_)
\* the element trees of n elements, and the sequences of trees of n
\* elements in all: a div holds any forest
Trees(n) ==
  IF n = 1 THEN BodyLeaves \cup {DivElem(<<>>)}
  ELSE {DivElem(f) : f \in Forests(n - 1)}
Forests(n) ==
  IF n = 0 THEN {<<>>}
  ELSE UNION {{<<t>> \o f : t \in Trees(k), f \in Forests(n - k)} : k \in 1..n}

Document(rootAttrs, heads, bodies) ==
  Elem("html", rootAttrs, <<>>,
       <<Elem("head", <<>>, <<>>, <<TitleElem>> \o heads),
         Elem("body", <<>>, <<>>, bodies)>>)

SourceDocs ==
  UNION {{Document(a, h, b) : a \in AttrSeqs(na), h \in SeqsOfLen(HeadChoices, nh),
                              b \in Forests(nb)} :
         <<na, nh, nb>> \in {t \in (0..MaxElems) \X (0..MaxElems) \X (0..MaxElems) :
                               t[1] + t[2] + t[3] <= MaxElems}}

--------------------------------------------------------------------------
(* JSON.parse and JSON.stringify on the texts that occur *)

JsonHi == "{\"name\":\"Hi\"}"
JsonHo == "{\"name\":\"Ho\"}"

\* JSON.parse throws a SyntaxError on every other text.
JsonValid(t) == t \in {JsonSpaced, JsonDup, JsonHi, JsonHo}

\* The parsed value: an object as the sequence of its <<key, value>>
\* members.  White space is insignificant; of a repeated key the last
\* value stays.
JsonParse(t) ==
  CASE t = JsonSpaced -> <<<<"name", "Hi">>>>
    [] t = JsonHi -> <<<<"name", "Hi">>>>
    [] t = JsonDup -> <<<<"name", "Ho">>>>
    [] t = JsonHo -> <<<<"name", "Ho">>>>

\* JSON.stringify(value), no indent argument: the compact text.
JsonStringify(v) ==
  CASE v = <<<<"name", "Hi">>>> -> JsonHi
    [] v = <<<<"name", "Ho">>>> -> JsonHo

\* JSON.stringify of the literal of generateBody.
AnalyticsJson ==
  "{\"vars\":{\"account\":\"UA-89846829-2\"},\"triggers\":{\"trackPageview\":{\"on\":\"visible\",\"request\":\"pageview\"}}}"

--------------------------------------------------------------------------
(* The href property of an element *)

\* The URL parser's serialization of an absolute URL (a URL without a path
\* gets the path "/").  The document of jsdom.env(markup) is about:blank:
\* nothing else resolves, and the property is then the attribute's value.
ResolveUrl(u) == IF u = UrlRaw THEN "https://a.example/" ELSE u

\* element.href: the resolved href attribute of a link element, "" (falsy,
\* as is undefined) for an element without the attribute or the property.
HrefProperty(n) ==
  IF n.tag = "link" /\ HasAttr(n, "href") THEN ResolveUrl(GetAttr(n, "href")) ELSE ""

--------------------------------------------------------------------------
(* generateStyle's String.replace(/@charset\s+[^;]*;/, '') *)

\* The regular expression matches at chunk i: "@charset", white space,
\* then anything up to a ";".
CharsetMatchAt(t, i) ==
  /\ t[i] = "@charset"
  /\ i + 1 <= Len(t)
  /\ t[i + 1] = " "
  /\ \E j \in (i + 2)..Len(t) : t[j] = ";"

\* [^;]* stops at the first ";" after the white space.
CharsetMatchEnd(t, i) ==
  CHOOSE j \in (i + 2)..Len(t) : t[j] = ";" /\ \A k \in (i + 2)..(j - 1) : t[k] # ";"

\* replace without the g flag: the leftmost match is removed, no other.
StripCharset(t) ==
  IF \E i \in DOMAIN t : CharsetMatchAt(t, i)
  THEN LET i == CHOOSE i \in DOMAIN t :
                  CharsetMatchAt(t, i) /\ \A k \in 1..(i - 1) : ~CharsetMatchAt(t, k)
       IN SubSeq(t, 1, i - 1) \o SubSeq(t, CharsetMatchEnd(t, i) + 1, Len(t))
  ELSE t

\* result.css of the build: of an empty stylesheet, and of one that
\* starts with a @charset directive.
CssSamples ==
  { <<>>,
    <<"@charset", " ", "\"UTF-8\"", ";", "body{color:red}">> }

CssChunks == {"@charset", " ", "\"UTF-8\"", ";", "body{color:red}"}

--------------------------------------------------------------------------
(* Markup: outerHTML, and what html-minifier makes of it.  The chunks of  *)
(* the root tag are exact for the two regular expressions; a text or a    *)
(* value further down is one chunk.                                       *)

\* An attribute name in chunks: "amp" is a chunk of its own wherever it
\* occurs in a name, and so is the "-" that follows it.
NameChunks(name) ==
  CASE name = "amp" -> <<"amp">>
    [] name = "data-amp" -> <<"data-", "amp">>
    [] name = "amp-boilerplate" -> <<"amp", "-", "boilerplate">>
    [] name = "amp-custom" -> <<"amp", "-", "custom">>
    [] OTHER -> <<name>>

VoidTags == {"meta", "link"}

\* name="value" as outerHTML writes it: the value in quotes, the three
\* chunks ", value, "; an empty value the one chunk "".
AttrMarkup(a) ==
  <<" ">> \o NameChunks(a.name) \o
  (IF a.value = "" THEN <<"=", "\"\"">> ELSE <<"=", "\"", a.value, "\"">>)

RECURSIVE AttrsMarkup(_)
AttrsMarkup(attrs) ==
  IF attrs = <<>> THEN <<>> ELSE AttrMarkup(Head(attrs)) \o AttrsMarkup(Tail(attrs))

RECURSIVE OuterHTML(_, _), KidsMarkup(_, _)
\* element.outerHTML
OuterHTML(h, n) ==
  <<"<", h[n].tag>> \o AttrsMarkup(h[n].attrs) \o <<">">> \o h[n].text \o
  KidsMarkup(h, h[n].kids) \o
  (IF h[n].tag \in VoidTags THEN <<>> ELSE <<"</", h[n].tag, ">">>)
KidsMarkup(h, ks) ==
  IF ks = <<>> THEN <<>> ELSE OuterHTML(h, Head(ks)) \o KidsMarkup(h, Tail(ks))

Reorder(s, f) == [i \in DOMAIN s |-> s[f[i]]]

\* collapseBooleanAttributes: async="" is written async (the chunks = and
\* "" after the name go).
CollapseAsync(t) ==
  LET Gone(i) ==
        \/ i > 1 /\ i < Len(t) /\ t[i - 1] = "async" /\ t[i] = "=" /\ t[i + 1] = "\"\""
        \/ i > 2 /\ t[i - 2] = "async" /\ t[i - 1] = "=" /\ t[i] = "\"\""
      marked == [i \in DOMAIN t |-> IF Gone(i) THEN "" ELSE t[i]]
  IN SelectSeq(marked, LAMBDA c : c # "")

\* The attribute values that keep their quotes: those holding a character
\* an unquoted value cannot hold, here "=".
NeedsQuotes(v) == v = "initial-scale=1,minimum-scale=1,width=device-width"

\* removeAttributeQuotes, and the line break after the doctype
\* (collapseWhitespace).
Unquote(t) ==
  LET Gone(i) ==
        \/ t[i] = "\n"
        \/ /\ t[i] = "\""
           /\ ~(i < Len(t) /\ NeedsQuotes(t[i + 1]))
           /\ ~(i > 1 /\ NeedsQuotes(t[i - 1]))
      marked == [i \in DOMAIN t |-> IF Gone(i) THEN "" ELSE t[i]]
  IN SelectSeq(marked, LAMBDA c : c # "")

RECURSIVE SplitAttrs(_)
\* The attributes of a tag, each the chunks that follow its leading space.
SplitAttrs(t) ==
  IF t = <<>> THEN <<>>
  ELSE LET rest == Tail(t)
           n == IF \E i \in DOMAIN rest : rest[i] = " " THEN IndexOf(rest, " ") - 1 ELSE Len(rest)
       IN <<SubSeq(rest, 1, n)>> \o SplitAttrs(SubSeq(rest, n + 1, Len(rest)))

RECURSIVE JoinAttrs(_)
JoinAttrs(as) == IF as = <<>> THEN <<>> ELSE <<" ">> \o Head(as) \o JoinAttrs(Tail(as))

\* What minify(text, options) may return.  The quotes of attribute values
\* go (an empty value keeps its ""), async="" is collapsed, and
\* sortAttributes orders the attributes of a tag by the
\* minifier's own measure: the root tag's attributes come in any order.
\* The root tag is chunks 2.. up to the first ">"; its attributes start at
\* chunk 4, after "<" and "html".
Minify(t) ==
  LET u == CollapseAsync(Unquote(t))
      close == IndexOf(u, ">")
      attrs == SplitAttrs(SubSeq(u, 4, close - 1))
  IN { SubSeq(u, 1, 3) \o JoinAttrs(Reorder(attrs, f)) \o SubSeq(u, close, Len(u)) :
         f \in Permutations(DOMAIN attrs) }

--------------------------------------------------------------------------
(* main's String.replace(/(amp(?:-[^=]+)?)=""/, (_, name) => name) *)

FirstEq(t, i) == CHOOSE j \in (i + 1)..Len(t) : t[j] = "=" /\ \A k \in (i + 1)..(j - 1) : t[k] # "="

\* The index of the "=" that ends a match starting at chunk i, 0 when
\* there is no match at i: "amp", then either ="" at once, or "-" and one
\* character or more that is not "=", up to ="".
FixupEq(t, i) ==
  IF t[i] # "amp" \/ i + 2 > Len(t) THEN 0
  ELSE IF t[i + 1] = "=" THEN (IF t[i + 2] = "\"\"" THEN i + 1 ELSE 0)
  ELSE IF t[i + 1] = "-" /\ (\E j \in (i + 2)..Len(t) : t[j] = "=")
       THEN LET j == FirstEq(t, i + 1)
            IN IF j > i + 2 /\ j + 1 <= Len(t) /\ t[j + 1] = "\"\"" THEN j ELSE 0
  ELSE 0

RECURSIVE FixupAll(_)
\* Fixup with the g flag: ="" goes from every match.
FixupAll(t) ==
  IF \E i \in DOMAIN t : FixupEq(t, i) # 0
  THEN LET i == CHOOSE i \in DOMAIN t :
                  FixupEq(t, i) # 0 /\ \A k \in 1..(i - 1) : FixupEq(t, k) = 0
           j == FixupEq(t, i)
       IN FixupAll(SubSeq(t, 1, j - 1) \o SubSeq(t, j + 2, Len(t)))
  ELSE t

\* replace without the g flag: of the leftmost match the name stays and
\* ="" goes; the rest of the text is as it was.
Fixup(t) ==
  IF \E i \in DOMAIN t : FixupEq(t, i) # 0
  THEN LET i == CHOOSE i \in DOMAIN t :
                  FixupEq(t, i) # 0 /\ \A k \in 1..(i - 1) : FixupEq(t, k) = 0
           j == FixupEq(t, i)
       IN SubSeq(t, 1, j - 1) \o SubSeq(t, j + 2, Len(t))
  ELSE t

--------------------------------------------------------------------------
(* The generators of build.js, as functions of the DOM *)

BoilerplateCss ==
  "body{-webkit-animation:-amp-start 8s steps(1,end) 0s 1 normal both;-moz-animation:-amp-start 8s steps(1,end) 0s 1 normal both;-ms-animation:-amp-start 8s steps(1,end) 0s 1 normal both;animation:-amp-start 8s steps(1,end) 0s 1 normal both}@-webkit-keyframes -amp-start{from{visibility:hidden}to{visibility:visible}}@-moz-keyframes -amp-start{from{visibility:hidden}to{visibility:visible}}@-ms-keyframes -amp-start{from{visibility:hidden}to{visibility:visible}}@-o-keyframes -amp-start{from{visibility:hidden}to{visibility:visible}}@keyframes -amp-start{from{visibility:hidden}to{visibility:visible}}"

BoilerplateNoScriptCss ==
  "body{-webkit-animation:none;-moz-animation:none;-ms-animation:none;animation:none}"

ViewportContent == "initial-scale=1,minimum-scale=1,width=device-width"
AnalyticsLoaderUrl == "https://cdn.ampproject.org/v0/amp-analytics-0.1.js"
CoreLoaderUrl == "https://cdn.ampproject.org/v0.js"

\* document.documentElement of the parsed document, and of the live one
DocumentElement == 1


\* The selector '[rel="canonical"]'
IsCanonical(n) == GetAttr(n, "rel") = "canonical"

\* The selector '[type="application/ld+json"]'
IsLdJson(n) == GetAttr(n, "type") = LdJson

\* IsPreloadLink without the type selector: '[rel="preload"]'
IsPreloadAny(n) == GetAttr(n, "rel") = "preload"

\* The selector 'link[rel="preload"]'
IsPreloadLink(n) == n.tag = "link" /\ GetAttr(n, "rel") = "preload"

\* element.matches(selector), for the selectors of the file
Matches(n, selector) ==
  CASE selector = "[rel=\"canonical\"]" -> IsCanonical(n)
    [] selector = "[type=\"application/ld+json\"]" -> IsLdJson(n)
    [] selector = "link[rel=\"preload\"]" -> IsPreloadLink(n)
    [] selector = "title" -> n.tag = "title"

\* document.querySelectorAll(selector): the elements of the document that
\* match, in document order.
QuerySelectorAll(h, selector) ==
  SelectSeq(Subtree(h, DocumentElement), LAMBDA n : Matches(h[n], selector))

\* document.body
DocumentBody(h) ==
  CHOOSE b \in DOMAIN h : h[b].parent = DocumentElement /\ h[b].tag = "body"

\* document.title: the text of the document's title element
DocumentTitle(h) ==
  LET titles == QuerySelectorAll(h, "title")
  IN IF titles = <<>> THEN <<>> ELSE h[titles[1]].text


\* GenerateCanonical without the test of canonical.href: a link is made
\* of every canonical element found.
GenerateCanonicalAnyHref(h) ==
  LET h1 == CreateElement(h, "link")
      link == Len(h1)
      found == QuerySelectorAll(h1, "[rel=\"canonical\"]")
  IN IF found = <<>>
     THEN [heap |-> h1, node |-> 0]
     ELSE [heap |-> SetAttribute(SetAttribute(h1, link, "href", HrefProperty(h1[found[1]])),
                                 link, "rel", "canonical"),
           node |-> link]

\* generateCanonical: the heap after it, and the link it resolves to (0
\* for null).  The link element is created before the query.
GenerateCanonical(h) ==
  LET h1 == CreateElement(h, "link")
      link == Len(h1)
      found == QuerySelectorAll(h1, "[rel=\"canonical\"]")
  IN IF found = <<>> \/ HrefProperty(h1[found[1]]) = ""
     THEN [heap |-> h1, node |-> 0]
     ELSE [heap |-> SetAttribute(SetAttribute(h1, link, "href", HrefProperty(h1[found[1]])),
                                 link, "rel", "canonical"),
           node |-> link]

\* JsonLdBlocks with the query run on the source head (node 2) alone.
JsonLdBlocksOfHead(h) == SelectSeq(Subtree(h, 2), LAMBDA n : IsLdJson(h[n]))

\* document.querySelectorAll('[type="application/ld+json"]')
JsonLdBlocks(h) == QuerySelectorAll(h, "[type=\"application/ld+json\"]")

\* textContent of a structured-data block as one string
TextOf(n) == IF Len(n.text) = 1 THEN n.text[1] ELSE ""

RECURSIVE EmitJsonLdSkipBad(_, _, _)
\* EmitJsonLd with the JSON.parse in a try/catch: a block that is not
\* JSON is dropped and the loop goes on.
EmitJsonLdSkipBad(h, hd, blocks) ==
  IF blocks = <<>> THEN [heap |-> h, ok |-> TRUE]
  ELSE IF ~JsonValid(TextOf(h[Head(blocks)])) THEN EmitJsonLdSkipBad(h, hd, Tail(blocks))
  ELSE LET schema == JsonParse(TextOf(h[Head(blocks)]))
           h1 == CreateElement(h, "script")
           script == Len(h1)
           h2 == SetAttribute(h1, script, "type", LdJson)
           h3 == SetTextContent(h2, script, <<JsonStringify(schema)>>)
       IN EmitJsonLdSkipBad(AppendChild(h3, hd, script), hd, Tail(blocks))

RECURSIVE EmitJsonLd(_, _, _)
\* The forEach of generateHead over the blocks found: each is parsed,
\* stringified into a new script and appended to the head hd; JSON.parse
\* throws at the first block that is not JSON, and the loop ends there.
EmitJsonLd(h, hd, blocks) ==
  IF blocks = <<>> THEN [heap |-> h, ok |-> TRUE]
  ELSE IF ~JsonValid(TextOf(h[Head(blocks)])) THEN [heap |-> h, ok |-> FALSE]
  ELSE LET schema == JsonParse(TextOf(h[Head(blocks)]))
           h1 == CreateElement(h, "script")
           script == Len(h1)
           h2 == SetAttribute(h1, script, "type", LdJson)
           h3 == SetTextContent(h2, script, <<JsonStringify(schema)>>)
       IN EmitJsonLd(AppendChild(h3, hd, script), hd, Tail(blocks))

\* GenerateBoilerplates with the two boilerplate styles appended after
\* the noscript variant first.
GenerateBoilerplatesSwapped(h, hd) ==
  LET h1 == CreateElement(h, "style")
      style == Len(h1)
      h2 == SetTextContent(SetAttribute(h1, style, "amp-boilerplate", ""), style,
                           <<BoilerplateCss>>)
      h3 == CreateElement(h2, "noscript")
      noscript == Len(h3)
      h4 == CreateElement(h3, "style")
      nsStyle == Len(h4)
      h5 == AppendChild(h4, noscript, nsStyle)
      h6 == SetTextContent(SetAttribute(h5, nsStyle, "amp-boilerplate", ""), nsStyle,
                           <<BoilerplateNoScriptCss>>)
  IN AppendChild(AppendChild(h6, hd, noscript), hd, style)

\* generateBoilerplate, generateBoilerplateForNoScript, and the two
\* appendChild of generateHead that follow them.
GenerateBoilerplates(h, hd) ==
  LET h1 == CreateElement(h, "style")
      style == Len(h1)
      h2 == SetTextContent(SetAttribute(h1, style, "amp-boilerplate", ""), style,
                           <<BoilerplateCss>>)
      h3 == CreateElement(h2, "noscript")
      noscript == Len(h3)
      h4 == CreateElement(h3, "style")
      nsStyle == Len(h4)
      h5 == AppendChild(h4, noscript, nsStyle)
      h6 == SetTextContent(SetAttribute(h5, nsStyle, "amp-boilerplate", ""), nsStyle,
                           <<BoilerplateNoScriptCss>>)
  IN AppendChild(AppendChild(h6, hd, style), hd, noscript)

\* generateStyle, given result.css, and the appendChild that follows it.
GenerateStyle(h, hd, css) ==
  LET h1 == CreateElement(h, "style")
      style == Len(h1)
      h2 == SetTextContent(SetAttribute(h1, style, "amp-custom", ""), style, StripCharset(css))
  IN AppendChild(h2, hd, style)

RECURSIVE RemoveEveryOther(_, _)
\* RemoveAll as a loop over the live collection would run: with each
\* removal the collection shifts, and every other script is skipped.
RemoveEveryOther(h, ns) ==
  IF ns = <<>> THEN h
  ELSE RemoveEveryOther(Remove(h, Head(ns)), IF Len(ns) = 1 THEN <<>> ELSE Tail(Tail(ns)))

RECURSIVE RemoveAll(_, _)
RemoveAll(h, ns) == IF ns = <<>> THEN h ELSE RemoveAll(Remove(h, Head(ns)), Tail(ns))

\* BodyClone without the clone: generateBody works on document.body.
BodyInPlace(h) == [heap |-> h, node |-> DocumentBody(h)]

\* The node generateBody works on: a deep clone of document.body.
BodyClone(h) == [heap |-> CloneNode(h, DocumentBody(h), TRUE), node |-> Len(h) + 1]

\* generateBody: every script under the clone is removed, and an
\* amp-analytics element with its configuration is appended.
GenerateBody(h) ==
  LET h1 == BodyClone(h).heap
      b == BodyClone(h).node
      scripts == SelectSeq(Descendants(h1, b), LAMBDA n : h1[n].tag = "script")
      h2 == RemoveAll(h1, scripts)
      h3 == CreateElement(h2, "amp-analytics")
      ampAnalytics == Len(h3)
      h4 == SetAttribute(h3, ampAnalytics, "type", "googleanalytics")
      h5 == CreateElement(h4, "script")
      script == Len(h5)
      h6 == SetTextContent(SetAttribute(h5, script, "type", "application/json"), script,
                           <<AnalyticsJson>>)
  IN AppendChild(AppendChild(h6, ampAnalytics, script), b, ampAnalytics)

--------------------------------------------------------------------------
(* The build: main() and its top-level handler *)

NoFile == [state |-> "absent", data |-> <<>>]

Init ==
  /\ pc = "start"
  /\ input = <<>>
  /\ heap = <<>>
  /\ srcHeap = <<>>
  /\ html = 0
  /\ head = 0
  /\ body = 0
  /\ text = <<>>
  /\ minified = <<>>
  /\ output = <<>>
  /\ file = NoFile
  /\ failedAt = ""
  /\ reported = FALSE
  /\ exitStatus = -1
  /\ cssIn = <<>>
  /\ cssOut = <<>>
  /\ preloads = <<>>
  /\ idx = 0

\* A promise main awaits rejects, or a call in it throws: main's promise
\* rejects, and nothing after the step runs.
Reject(step) ==
  /\ pc' = "rejected"
  /\ failedAt' = step

\* const buffer = await read(file)
Read ==
  /\ pc = "start"
  /\ \E doc \in SourceDocs : input' = doc
  /\ pc' = "read"
  /\ UNCHANGED <<heap, srcHeap, html, head, body, text, minified, output, file, failedAt,
                 reported, exitStatus, cssIn, cssOut, preloads, idx>>

ReadFail ==
  /\ pc = "start"
  /\ Reject("read")
  /\ UNCHANGED <<input, heap, srcHeap, html, head, body, text, minified, output, file,
                 reported, exitStatus, cssIn, cssOut, preloads, idx>>

\* const window = await parse(buffer.toString())
Parse ==
  /\ pc = "read"
  /\ heap' = Alloc(<<>>, input, 0)
  /\ srcHeap' = heap'
  /\ pc' = "parsed"
  /\ UNCHANGED <<input, html, head, body, text, minified, output, file, failedAt,
                 reported, exitStatus, cssIn, cssOut, preloads, idx>>

ParseFail ==
  /\ pc = "read"
  /\ Reject("parse")
  /\ UNCHANGED <<input, heap, srcHeap, html, head, body, text, minified, output, file,
                 reported, exitStatus, cssIn, cssOut, preloads, idx>>

\* generateHtml: the root is a shallow clone of documentElement, with the
\* marker attribute.
CloneRoot ==
  /\ pc = "parsed"
  /\ html' = Len(heap) + 1
  /\ heap' = SetAttribute(CloneNode(heap, DocumentElement, FALSE), html', "amp", "")
  /\ pc' = "root"
  /\ UNCHANGED <<input, srcHeap, head, body, text, minified, output, file, failedAt,
                 reported, exitStatus, cssIn, cssOut, preloads, idx>>

\* generateHead: the head element, the charset and the viewport meta.
HeadMeta ==
  /\ pc = "root"
  /\ head' = Len(heap) + 1
  /\ LET h1 == CreateElement(heap, "head")
         h2 == CreateElement(h1, "meta")
         charset == Len(h2)
         h3 == AppendChild(SetAttribute(h2, charset, "charset", "UTF-8"), head', charset)
         h4 == CreateElement(h3, "meta")
         viewport == Len(h4)
         h5 == SetAttribute(SetAttribute(h4, viewport, "name", "viewport"),
                            viewport, "content", ViewportContent)
     IN heap' = AppendChild(h5, head', viewport)
  /\ pc' = "meta"
  /\ UNCHANGED <<input, srcHeap, html, body, text, minified, output, file, failedAt,
                 reported, exitStatus, cssIn, cssOut, preloads, idx>>

\* const canonical = await generateCanonical(window); if (canonical) ...
Canonical ==
  /\ pc = "meta"
  /\ LET r == GenerateCanonical(heap)
     IN heap' = IF r.node # 0 THEN AppendChild(r.heap, head, r.node) ELSE r.heap
  /\ pc' = "canonical"
  /\ UNCHANGED <<input, srcHeap, html, head, body, text, minified, output, file, failedAt,
                 reported, exitStatus, cssIn, cssOut, preloads, idx>>

\* title.textContent = document.title
Title ==
  /\ pc = "canonical"
  /\ LET h1 == CreateElement(heap, "title")
         title == Len(h1)
     IN heap' = AppendChild(SetTextContent(h1, title, DocumentTitle(h1)), head, title)
  /\ pc' = "title"
  /\ UNCHANGED <<input, srcHeap, html, head, body, text, minified, output, file, failedAt,
                 reported, exitStatus, cssIn, cssOut, preloads, idx>>

\* The forEach over the structured-data blocks: it runs to its end, or
\* JSON.parse throws in it and generateHead rejects.
JsonLd ==
  /\ pc = "title"
  /\ LET r == EmitJsonLd(heap, head, JsonLdBlocks(heap))
     IN /\ heap' = r.heap
        /\ IF r.ok THEN pc' = "jsonld" /\ UNCHANGED failedAt ELSE Reject("json")
  /\ UNCHANGED <<input, srcHeap, html, head, body, text, minified, output, file,
                 reported, exitStatus, cssIn, cssOut, preloads, idx>>

Boilerplate ==
  /\ pc = "jsonld"
  /\ heap' = GenerateBoilerplates(heap, head)
  /\ pc' = "boilerplate"
  /\ UNCHANGED <<input, srcHeap, html, head, body, text, minified, output, file, failedAt,
                 reported, exitStatus, cssIn, cssOut, preloads, idx>>

\* const style = await generateStyle(window): the stylesheet is read, the
\* postcss configuration loaded, the stylesheet processed.
Style ==
  /\ pc = "boilerplate"
  /\ \E css \in CssSamples :
       /\ cssIn' = css
       /\ heap' = GenerateStyle(heap, head, css)
       /\ cssOut' = heap'[Len(heap')].text
  /\ pc' = "style"
  /\ UNCHANGED <<input, srcHeap, html, head, body, text, minified, output, file, failedAt,
                 reported, exitStatus, preloads, idx>>

StyleFail ==
  /\ pc = "boilerplate"
  /\ \E step \in {"styleRead", "styleConfig", "styleProcess"} : Reject(step)
  /\ UNCHANGED <<input, heap, srcHeap, html, head, body, text, minified, output, file,
                 reported, exitStatus, cssIn, cssOut, preloads, idx>>

\* The two loader scripts; generateHead returns.
Loaders ==
  /\ pc = "style"
  /\ LET h1 == CreateElement(heap, "script")
         ampAnalytics == Len(h1)
         h2 == SetAttribute(SetAttribute(SetAttribute(h1, ampAnalytics, "async", ""),
                                         ampAnalytics, "custom-element", "amp-analytics"),
                            ampAnalytics, "src", AnalyticsLoaderUrl)
         h3 == CreateElement(AppendChild(h2, head, ampAnalytics), "script")
         script == Len(h3)
         h4 == SetAttribute(SetAttribute(h3, script, "async", ""), script, "src", CoreLoaderUrl)
     IN heap' = AppendChild(h4, head, script)
  /\ pc' = "head"
  /\ UNCHANGED <<input, srcHeap, html, head, body, text, minified, output, file, failedAt,
                 reported, exitStatus, cssIn, cssOut, preloads, idx>>

\* const body = await generateBody(window)
Body ==
  /\ pc = "head"
  /\ body' = BodyClone(heap).node
  /\ heap' = GenerateBody(heap)
  /\ pc' = "body"
  /\ UNCHANGED <<input, srcHeap, html, head, text, minified, output, file, failedAt,
                 reported, exitStatus, cssIn, cssOut, preloads, idx>>

\* html.appendChild(head); html.appendChild(body)
Assemble ==
  /\ pc = "body"
  /\ heap' = AppendChild(AppendChild(heap, html, head), html, body)
  /\ pc' = "assembled"
  /\ UNCHANGED <<input, srcHeap, html, head, body, text, minified, output, file, failedAt,
                 reported, exitStatus, cssIn, cssOut, preloads, idx>>

\* generate: `<!DOCTYPE html>\n${html.outerHTML}`
Serialize ==
  /\ pc = "assembled"
  /\ text' = <<"<!DOCTYPE html>", "\n">> \o OuterHTML(heap, html)
  /\ pc' = "serialized"
  /\ UNCHANGED <<input, heap, srcHeap, html, head, body, minified, output, file, failedAt,
                 reported, exitStatus, cssIn, cssOut, preloads, idx>>

\* const html = minify(...).replace(...)
MinifyAndFix ==
  /\ pc = "serialized"
  /\ \E m \in Minify(text) :
       /\ minified' = m
       /\ output' = Fixup(m)
  /\ pc' = "minified"
  /\ UNCHANGED <<input, heap, srcHeap, html, head, body, text, file, failedAt,
                 reported, exitStatus, cssIn, cssOut, preloads, idx>>

MinifyFail ==
  /\ pc = "serialized"
  /\ Reject("minify")
  /\ UNCHANGED <<input, heap, srcHeap, html, head, body, text, minified, output, file,
                 reported, exitStatus, cssIn, cssOut, preloads, idx>>

\* write: mkdir(dir) resolves ...
Mkdir ==
  /\ pc = "minified"
  /\ pc' = "mkdir"
  /\ UNCHANGED <<input, heap, srcHeap, html, head, body, text, minified, output, file,
                 failedAt, reported, exitStatus, cssIn, cssOut, preloads, idx>>

\* ... or rejects: .catch(reject)
MkdirFail ==
  /\ pc = "minified"
  /\ Reject("mkdir")
  /\ UNCHANGED <<input, heap, srcHeap, html, head, body, text, minified, output, file,
                 reported, exitStatus, cssIn, cssOut, preloads, idx>>

\* writeFile(file, data, callback) without error
WriteFile ==
  /\ pc = "mkdir"
  /\ file' = [state |-> "complete", data |-> output]
  /\ pc' = "written"
  /\ UNCHANGED <<input, heap, srcHeap, html, head, body, text, minified, output,
                 failedAt, reported, exitStatus, cssIn, cssOut, preloads, idx>>

\* writeFile calls back with an error: nothing, or a part of the data,
\* is in the file.
WriteFileFail ==
  /\ pc = "mkdir"
  /\ \E n \in {0, Len(output) \div 2} :
       file' = IF n = 0 THEN NoFile ELSE [state |-> "partial", data |-> SubSeq(output, 1, n)]
  /\ Reject("write")
  /\ UNCHANGED <<input, heap, srcHeap, html, head, body, text, minified, output,
                 reported, exitStatus, cssIn, cssOut, preloads, idx>>

\* main().catch(console.error.bind(console)): the handler prints the
\* error and returns.
Catch ==
  /\ pc = "rejected"
  /\ reported' = TRUE
  /\ pc' = "reported"
  /\ UNCHANGED <<input, heap, srcHeap, html, head, body, text, minified, output, file,
                 failedAt, exitStatus, cssIn, cssOut, preloads, idx>>

\* The exit status of the node process when nothing is left to run: no
\* exception is uncaught, no rejection unhandled, process.exitCode is
\* never set and process.exit never called.
ExitCode == 0

Exit ==
  /\ pc \in {"written", "reported"}
  /\ exitStatus' = ExitCode
  /\ pc' = "exited"
  /\ UNCHANGED <<input, heap, srcHeap, html, head, body, text, minified, output, file,
                 failedAt, reported, cssIn, cssOut, preloads, idx>>

Next ==
  \/ Read \/ ReadFail \/ Parse \/ ParseFail \/ CloneRoot \/ HeadMeta \/ Canonical
  \/ Title \/ JsonLd \/ Boilerplate \/ Style \/ StyleFail \/ Loaders \/ Body
  \/ Assemble \/ Serialize \/ MinifyAndFix \/ MinifyFail \/ Mkdir \/ MkdirFail
  \/ WriteFile \/ WriteFileFail \/ Catch \/ Exit

Spec == Init /\ [][Next]_vars

--------------------------------------------------------------------------
(* generateStyle alone, over every CSS text the transform can return *)

InitStyle ==
  /\ pc = "css"
  /\ cssIn \in SeqsUpTo(CssChunks, MaxCss)
  /\ heap = <<Node("head", <<>>, <<>>, 0, "new")>>
  /\ head = 1
  /\ input = <<>>
  /\ srcHeap = <<>>
  /\ html = 0
  /\ body = 0
  /\ text = <<>>
  /\ minified = <<>>
  /\ output = <<>>
  /\ file = NoFile
  /\ failedAt = ""
  /\ reported = FALSE
  /\ exitStatus = -1
  /\ cssOut = <<>>
  /\ preloads = <<>>
  /\ idx = 0

\* generateStyle with result.css = cssIn
StyleOnly ==
  /\ pc = "css"
  /\ heap' = GenerateStyle(heap, head, cssIn)
  /\ cssOut' = heap'[Len(heap')].text
  /\ pc' = "cssDone"
  /\ UNCHANGED <<input, srcHeap, html, head, body, text, minified, output, file, failedAt,
                 reported, exitStatus, cssIn, preloads, idx>>

NextStyle == StyleOnly

SpecStyle == InitStyle /\ [][NextStyle]_vars

--------------------------------------------------------------------------
(* The preload shim: the function at the end of the file, run by a        *)
(* browser on a live document                                              *)

PreloadLink ==
  Elem("link", <<Attr("rel", "preload"), Attr("href", "main.css"), Attr("as", "style")>>,
       <<>>, <<>>)
StylesheetLink ==
  Elem("link", <<Attr("rel", "stylesheet"), Attr("href", "base.css")>>, <<>>, <<>>)
PreloadAnchor == Elem("a", <<Attr("rel", "preload"), Attr("href", "next.html")>>, <<"next">>, <<>>)

LiveChoices ==
  {PreloadLink, StylesheetLink, CanonicalElem(UrlSlash), PreloadAnchor, DivElem(<<PreloadLink>>)}

LiveDocs == {Elem("html", <<>>, <<>>, kids) : kids \in SeqsUpTo(LiveChoices, MaxLive)}

InitShim ==
  /\ pc = "shim"
  /\ \E doc \in LiveDocs : heap = Alloc(<<>>, doc, 0)
  /\ srcHeap = heap
  /\ input = <<>>
  /\ html = 0
  /\ head = 0
  /\ body = 0
  /\ text = <<>>
  /\ minified = <<>>
  /\ output = <<>>
  /\ file = NoFile
  /\ failedAt = ""
  /\ reported = FALSE
  /\ exitStatus = -1
  /\ cssIn = <<>>
  /\ cssOut = <<>>
  /\ preloads = <<>>
  /\ idx = 0

\* const preloads = document.querySelectorAll('link[rel="preload"]'): a
\* static list
ShimQuery ==
  /\ pc = "shim"
  /\ preloads' = QuerySelectorAll(heap, "link[rel=\"preload\"]")
  /\ idx' = 0
  /\ pc' = "shimEach"
  /\ UNCHANGED <<input, heap, srcHeap, html, head, body, text, minified, output, file,
                 failedAt, reported, exitStatus, cssIn, cssOut>>

\* One call of the forEach callback: preload.rel = 'stylesheet'
ShimEach ==
  /\ pc = "shimEach"
  /\ idx < Len(preloads)
  /\ heap' = SetAttribute(heap, preloads[idx + 1], "rel", "stylesheet")
  /\ idx' = idx + 1
  /\ UNCHANGED <<pc, input, srcHeap, html, head, body, text, minified, output, file,
                 failedAt, reported, exitStatus, cssIn, cssOut, preloads>>

\* forEach returns, and main with it.
ShimDone ==
  /\ pc = "shimEach"
  /\ idx = Len(preloads)
  /\ pc' = "shimDone"
  /\ UNCHANGED <<input, heap, srcHeap, html, head, body, text, minified, output, file,
                 failedAt, reported, exitStatus, cssIn, cssOut, preloads, idx>>

NextShim == ShimQuery \/ ShimEach \/ ShimDone

SpecShim == InitShim /\ [][NextShim]_vars

--------------------------------------------------------------------------
(* How far a run of the build has come *)

Stages ==
  <<"start", "read", "parsed", "root", "meta", "canonical", "title", "jsonld",
    "boilerplate", "style", "head", "body", "assembled", "serialized", "minified",
    "mkdir", "written">>

\* The last position main reached: where it is, or where it was when a
\* step failed.
LastStage ==
  IF failedAt = "" THEN (IF pc = "exited" THEN "written" ELSE pc)
  ELSE CASE failedAt = "read" -> "start"
         [] failedAt = "parse" -> "read"
         [] failedAt = "json" -> "title"
         [] failedAt \in {"styleRead", "styleConfig", "styleProcess"} -> "boilerplate"
         [] failedAt = "minify" -> "serialized"
         [] failedAt = "mkdir" -> "minified"
         [] failedAt = "write" -> "mkdir"

Done(stage) == IndexOf(Stages, LastStage) >= IndexOf(Stages, stage)

Count(h, nodes, Test(_)) == Len(SelectSeq(nodes, LAMBDA n : Test(h[n])))

IsScript(n) == n.tag = "script"

IsAnalytics(n) == n.tag = "amp-analytics"

SrcBodyNodes == Descendants(srcHeap, DocumentBody(srcHeap))

OutBodyNodes == Descendants(heap, body)

--------------------------------------------------------------------------
(* C1 *)

\* C1, as claimed: once generateBody has returned, the new body holds no
\* script element that came from the source body and exactly one
\* amp-analytics element, whatever the source body holds.
C1_Claimed ==
  Done("body") =>
    /\ \A i \in DOMAIN OutBodyNodes :
         IsScript(heap[OutBodyNodes[i]]) => heap[OutBodyNodes[i]].from = "new"
    /\ Count(heap, OutBodyNodes, IsAnalytics) = 1

\* C1, amended: once generateBody has returned, the new body holds no
\* script element that came from the source body; its last child is the
\* one amp-analytics element generateBody created, holding the one
\* application/json script with the fixed configuration; and it holds, beside
\* that one, a copy of every amp-analytics element of the source body: one
\* more amp-analytics element than the source body.
C1_BodySanitized ==
  Done("body") =>
    /\ \A i \in DOMAIN OutBodyNodes :
         IsScript(heap[OutBodyNodes[i]]) => heap[OutBodyNodes[i]].from = "new"
    /\ Count(heap, OutBodyNodes, IsAnalytics) = Count(srcHeap, SrcBodyNodes, IsAnalytics) + 1
    /\ Count(heap, OutBodyNodes, LAMBDA n : IsAnalytics(n) /\ n.from = "new") = 1
    /\ LET last == heap[body].kids[Len(heap[body].kids)]
       IN /\ IsAnalytics(heap[last])
          /\ heap[last].from = "new"
          /\ heap[last].attrs = <<Attr("type", "googleanalytics")>>
          /\ Len(heap[last].kids) = 1
          /\ heap[heap[last].kids[1]].tag = "script"
          /\ heap[heap[last].kids[1]].attrs = <<Attr("type", "application/json")>>
          /\ heap[heap[last].kids[1]].text = <<AnalyticsJson>>
    /\ Count(heap, OutBodyNodes, IsScript) = 1
    /\ Len(OutBodyNodes) = Count(srcHeap, SrcBodyNodes, LAMBDA n : ~IsScript(n)) + 2

\* C1's case: the source body holds a script inside another element and
\* an amp-analytics element of its own, and generateBody has returned.
C1_Witness ==
  /\ Done("body")
  /\ Count(srcHeap, SrcBodyNodes, IsAnalytics) = 1
  /\ Count(heap, OutBodyNodes, IsAnalytics) = 2
  /\ \E i \in DOMAIN SrcBodyNodes :
       /\ IsScript(srcHeap[SrcBodyNodes[i]])
       /\ srcHeap[SrcBodyNodes[i]].parent # DocumentBody(srcHeap)

--------------------------------------------------------------------------
(* C10 *)

\* C10: from the parse on, every node of the parsed source document is as
\* the parser delivered it (tag, attributes, text, children, parent), and
\* no node made later (a clone, a created element) hangs under a source
\* node: the new root is childless until it is given the new head and the
\* new body.
C10_SourceUnchanged ==
  Done("parsed") =>
    /\ \A n \in DOMAIN srcHeap : heap[n] = srcHeap[n]
    /\ \A n \in DOMAIN heap :
         n > Len(srcHeap) => heap[n].from # "source" /\
                             (heap[n].parent = 0 \/ heap[n].parent > Len(srcHeap))
    /\ html # 0 => \A i \in DOMAIN heap[html].kids : heap[html].kids[i] \in {head, body}
    /\ html # 0 => heap[html].attrs = SetAttrs(srcHeap[DocumentElement].attrs, "amp", "")

\* C10's case: the output tree is assembled from a source whose body holds
\* a script, and the source still holds it.
C10_Witness ==
  /\ Done("assembled")
  /\ heap[html].kids = <<head, body>>
  /\ Count(srcHeap, SrcBodyNodes, IsScript) >= 2
  /\ Count(heap, Descendants(heap, DocumentBody(heap)), IsScript) >= 2

--------------------------------------------------------------------------
(* C3 *)

\* What a child of the new head is.
HeadKind(h, n) ==
  CASE h[n].tag = "meta" /\ h[n].attrs = <<Attr("charset", "UTF-8")>> -> "charset"
    [] h[n].tag = "meta" /\ h[n].attrs = <<Attr("name", "viewport"),
                                           Attr("content", ViewportContent)>> -> "viewport"
    [] h[n].tag = "link" /\ IsCanonical(h[n]) -> "canonical"
    [] h[n].tag = "title" -> "title"
    [] h[n].tag = "script" /\ h[n].attrs = <<Attr("type", LdJson)>> -> "ld+json"
    [] h[n].tag = "style" /\ h[n].attrs = <<Attr("amp-boilerplate", "")>>
         /\ h[n].text = <<BoilerplateCss>> -> "boilerplate"
    [] h[n].tag = "noscript" /\ Len(h[n].kids) = 1
         /\ h[h[n].kids[1]].tag = "style"
         /\ h[h[n].kids[1]].attrs = <<Attr("amp-boilerplate", "")>>
         /\ h[h[n].kids[1]].text = <<BoilerplateNoScriptCss>> -> "noscript"
    [] h[n].tag = "style" /\ h[n].attrs = <<Attr("amp-custom", "")>> -> "custom"
    [] h[n].tag = "script" /\ h[n].attrs = <<Attr("async", ""),
                                             Attr("custom-element", "amp-analytics"),
                                             Attr("src", AnalyticsLoaderUrl)>> -> "analytics loader"
    [] h[n].tag = "script" /\ h[n].attrs = <<Attr("async", ""),
                                             Attr("src", CoreLoaderUrl)>> -> "core loader"
    [] OTHER -> "other"

HeadKinds == [i \in DOMAIN heap[head].kids |-> HeadKind(heap, heap[head].kids[i])]

\* C3: once generateHead has returned, the children of the new head are,
\* in this order: the charset meta, the viewport meta, at most one
\* canonical link, the title, the structured-data scripts, the boilerplate
\* style with the fixed text, the noscript holding the boilerplate style
\* with its fixed text, the custom style, the analytics loader, the core
\* loader.
C3_HeadOrder ==
  Done("head") =>
    \E c \in {0, 1}, k \in 0..Len(HeadKinds) :
      HeadKinds = <<"charset", "viewport">> \o [i \in 1..c |-> "canonical"] \o <<"title">>
                  \o [i \in 1..k |-> "ld+json"]
                  \o <<"boilerplate", "noscript", "custom", "analytics loader", "core loader">>

\* C3's case: a head with a canonical link and two structured-data blocks
\* is complete.
C3_Witness ==
  /\ Done("head")
  /\ Len(HeadKinds) = 11
  /\ HeadKinds[3] = "canonical"
  /\ HeadKinds[5] = "ld+json"
  /\ HeadKinds[6] = "ld+json"

--------------------------------------------------------------------------
(* C4 *)

HasBadJson ==
  \E n \in DOMAIN srcHeap : IsLdJson(srcHeap[n]) /\ ~JsonValid(TextOf(srcHeap[n]))

\* C4: something is in the output file only when read, parse, the head,
\* the body, the style and the minifier have all succeeded and the write
\* step was reached; a run in which one of them failed leaves no file; and
\* a source with a structured-data block that is not JSON never gets past
\* the structured-data step, never to a file.
C4_WriteLast ==
  /\ file # NoFile => Done("mkdir") /\ failedAt \in {"", "write"}
                      /\ output = Fixup(minified) /\ minified \in Minify(text)
  /\ file.state = "complete" => file.data = output /\ failedAt = ""
  /\ failedAt \in {"read", "parse", "json", "styleRead", "styleConfig", "styleProcess",
                   "minify", "mkdir"} => file = NoFile
  /\ Done("parsed") /\ HasBadJson => file = NoFile /\ ~Done("jsonld")
  /\ Done("jsonld") => failedAt # "json"

\* C4's case: a run over a source with a malformed structured-data block
\* has ended, rejected at that block, and there is no file.
C4_Witness ==
  /\ pc = "exited"
  /\ failedAt = "json"
  /\ HasBadJson
  /\ file = NoFile

--------------------------------------------------------------------------
(* C5 *)

\* C5, as claimed: when the process has ended, a failed step was reported
\* and the exit status is not 0; and an exit status of 0 means the file
\* was written.
C5_Claimed ==
  pc = "exited" =>
    /\ failedAt # "" => reported /\ exitStatus # 0
    /\ exitStatus = 0 => file.state = "complete"

--------------------------------------------------------------------------
(* C2 *)

Assembled == Done("assembled") /\ heap[html].kids = <<head, body>>

SrcCanonicals == SelectSeq(Subtree(srcHeap, DocumentElement), LAMBDA n : IsCanonical(srcHeap[n]))

OutCanonicals == SelectSeq(Subtree(heap, html), LAMBDA n : IsCanonical(heap[n]))

HrefsOf(h, nodes) == [i \in DOMAIN nodes |-> GetAttr(h[nodes[i]], "href")]

--------------------------------------------------------------------------
(* C6 *)

OutBlocks == SelectSeq(Subtree(heap, head), LAMBDA n : IsLdJson(heap[n]))

\* what a structured-data block holds: its text, parsed
ParsedBlocks(h, nodes) == [i \in DOMAIN nodes |-> JsonParse(TextOf(h[nodes[i]]))]

\* C6, as claimed: once the structured-data step is done (every block was
\* JSON), the new head holds one block for each block of the source head,
\* in order, with the same parsed value, and no other.
C6_Claimed ==
  Done("jsonld") =>
    LET srcHead == SelectSeq(Subtree(srcHeap, 2), LAMBDA n : IsLdJson(srcHeap[n]))
    IN /\ Len(OutBlocks) = Len(srcHead)
       /\ ParsedBlocks(heap, OutBlocks) = ParsedBlocks(srcHeap, srcHead)

\* C6, amended: once the structured-data step is done, the new head holds
\* one application/ld+json script for each element with that type found
\* anywhere in the source document, head or body, in document order, each
\* with a JSON text whose parsed value is that of the source block, and no
\* other structured-data block.
C6_RoundTrip ==
  Done("jsonld") =>
    LET src == SelectSeq(Subtree(srcHeap, DocumentElement), LAMBDA n : IsLdJson(srcHeap[n]))
    IN /\ Len(OutBlocks) = Len(src)
       /\ \A i \in DOMAIN OutBlocks :
            /\ heap[OutBlocks[i]].tag = "script"
            /\ heap[OutBlocks[i]].from = "new"
            /\ JsonValid(TextOf(heap[OutBlocks[i]]))
       /\ ParsedBlocks(heap, OutBlocks) = ParsedBlocks(srcHeap, src)

\* C6's case: a block with a repeated key in the source head and a block
\* with white space in the source body have both been re-emitted, in that
\* order, neither with the text it had.
C6_Witness ==
  /\ Done("jsonld")
  /\ Len(OutBlocks) = 2
  /\ LET src == SelectSeq(Subtree(srcHeap, DocumentElement), LAMBDA n : IsLdJson(srcHeap[n]))
     IN /\ Len(src) = 2
        /\ srcHeap[src[1]].parent = 2
        /\ TextOf(srcHeap[src[1]]) = JsonDup
        /\ TextOf(srcHeap[src[2]]) = JsonSpaced
        /\ TextOf(heap[OutBlocks[1]]) = JsonHo
        /\ TextOf(heap[OutBlocks[2]]) = JsonHi

--------------------------------------------------------------------------
(* C7 *)

\* The text begins with a @charset directive.
LeadingCharset(t) == t # <<>> /\ CharsetMatchAt(t, 1)

\* The text without its leading @charset directive.
WithoutLeadingCharset(t) ==
  IF LeadingCharset(t) THEN SubSeq(t, CharsetMatchEnd(t, 1) + 1, Len(t)) ELSE t

\* C7, as claimed: the text of the custom style element is the CSS text
\* without its leading @charset directive, the CSS text itself when it has
\* none, and never begins with a @charset directive.
C7_Claimed ==
  pc = "cssDone" =>
    /\ cssOut = WithoutLeadingCharset(cssIn)
    /\ ~LeadingCharset(cssOut)

--------------------------------------------------------------------------
(* C8 *)

\* The end of the root tag, and in it the marker: the attribute named amp
RootTagEnd(t) == IndexOf(t, ">")

MarkerAt(t) ==
  CHOOSE i \in 2..(RootTagEnd(t) - 1) : t[i] = "amp" /\ t[i - 1] = " " /\ t[i + 1] # "-"

MarkerBare(t) == t[MarkerAt(t) + 1] # "="

\* An attribute before the marker reads ...amp="" or amp-...="".
MatchBeforeMarker(t) ==
  \E k \in 1..(MarkerAt(t) - 1) :
    /\ t[k] = "amp"
    /\ \/ t[k + 1] = "=" /\ t[k + 2] = "\"\""
       \/ /\ t[k + 1] = "-"
          /\ t[k + 2] # "="
          /\ LET j == CHOOSE j \in (k + 3)..Len(t) :
                        t[j] = "=" /\ \A m \in (k + 3)..(j - 1) : t[m] # "="
             IN t[j + 1] = "\"\""

EmptyValues(t) == {i \in DOMAIN t : t[i] = "=" /\ i < Len(t) /\ t[i + 1] = "\"\""}

Occurs(t, pat) ==
  Cardinality({i \in 1..(Len(t) - Len(pat) + 1) : \A k \in DOMAIN pat : t[i + k - 1] = pat[k]})

\* C8, as claimed: in the final text of every build that got that far, the
\* root's marker attribute is the bare amp.
C8_Claimed == Done("minified") => MarkerBare(output)

\* C8, amended: the fix-up takes ="" from one place of the minified text,
\* the first match, and from no other: the later matches, amp-boilerplate=""
\* twice and amp-custom="", are in the final text as they were.  The
\* root's marker is the bare amp exactly when no attribute rendered before
\* it in the root tag matches the pattern (a name that ends in amp, or
\* starts amp-, with an empty value); the final text is then the minified
\* text without the marker's ="".
C8_FirstMatchOnly ==
  Done("minified") =>
    /\ Len(output) = Len(minified) - 2
    /\ Cardinality(EmptyValues(output)) = Cardinality(EmptyValues(minified)) - 1
    /\ Occurs(output, <<"amp", "-", "boilerplate", "=", "\"\"">>) = 2
    /\ Occurs(output, <<"amp", "-", "custom", "=", "\"\"">>) = 1
    /\ MarkerBare(output) <=> ~MatchBeforeMarker(minified)
    /\ ~MatchBeforeMarker(minified) =>
         output = SubSeq(minified, 1, MarkerAt(minified))
                  \o SubSeq(minified, MarkerAt(minified) + 3, Len(minified))

\* C8's case: the root tag of the minified text holds another attribute
\* before the marker, and the fix-up made the marker bare.
C8_Witness ==
  /\ Done("minified")
  /\ MarkerAt(minified) > 5
  /\ ~MarkerBare(minified)
  /\ MarkerBare(output)

--------------------------------------------------------------------------
(* C9 *)

\* C9: the shim raises no error on any document; when it is done, each
\* link element that had rel="preload" is as it was but for its rel, which
\* is "stylesheet"; every other node is as it was; no link with
\* rel="preload" is left.
C9_Shim ==
  /\ pc = "shim" => ENABLED ShimQuery
  /\ pc = "shimEach" => ENABLED (ShimEach \/ ShimDone)
  /\ pc = "shimDone" =>
       /\ DOMAIN heap = DOMAIN srcHeap
       /\ \A n \in DOMAIN heap :
            IF srcHeap[n].tag = "link" /\ GetAttr(srcHeap[n], "rel") = "preload"
            THEN heap[n] = [srcHeap[n] EXCEPT !.attrs = SetAttrs(@, "rel", "stylesheet")]
            ELSE heap[n] = srcHeap[n]
       /\ \A n \in DOMAIN heap :
            ~(heap[n].tag = "link" /\ GetAttr(heap[n], "rel") = "preload")

\* C9's case: the shim is done on a document with two preload links, one
\* of them nested, and an element that is no link with rel="preload".
C9_Witness ==
  /\ pc = "shimDone"
  /\ Len(preloads) = 2
  /\ \E n \in DOMAIN srcHeap : srcHeap[n].tag = "a"
  /\ \E n \in DOMAIN srcHeap : srcHeap[n].tag = "link" /\ srcHeap[n].parent # DocumentElement
  /\ heap # srcHeap

==========================================================================
